---- MODULE Spec2Model ----
(***************************************************************************)
(* Model of the GIF re-encoding pipeline of Veo-3.1-Type-Motion            *)
(* (createGifFromVideo in src/utils.ts).                                   *)
(*                                                                         *)
(* One action is one task of the browser's event loop: JavaScript runs a   *)
(* task and the promise continuations it releases to completion, so the    *)
(* code between two awaits is a single atomic step.                        *)
(***************************************************************************)
EXTENDS Integers, Sequences, FiniteSets

(***************************************************************************)
(* Bounds of the model.                                                    *)
(***************************************************************************)
\* clip durations are DurUnit * d milliseconds, d in 0..MaxDur
DurUnit == 50
MaxDur == 7
\* intrinsic sizes of the clips of Spec: 1..MaxW x 1..MaxH, plus 320x180
MaxW == 2
MaxH == 2
\* intrinsic sizes of the clips of SpecPlan: 1..PlanMaxW x 1..PlanMaxH
PlanMaxW == 5
PlanMaxH == 23
\* a clip of infinite duration is sampled without end; the model records
\* the first InfCap iterations and folds the later ones onto the last one
InfCap == 3

(***************************************************************************)
(* Program constants.                                                      *)
(***************************************************************************)
width == 400
fps == 10
DefaultDuration == 5
SeekTimeoutMs == 1000
MaxColors == 256
\* IEEE-754 binary64: a Number has a 53 bit significand
MantBits == 53

(***************************************************************************)
(* Number arithmetic.  video.videoHeight / video.videoWidth and its        *)
(* product with width are binary64 operations, each rounded to nearest,    *)
(* ties to even.  A double is [m, e]: m the 53 significand bits, most      *)
(* significant first (m[1] = 1), e the exponent of m[1].                   *)
(***************************************************************************)
Pow2(n) ==
  <<1, 2, 4, 8, 16, 32, 64, 128, 256, 512, 1024, 2048, 4096, 8192, 16384,
    32768, 65536, 131072, 262144, 524288, 1048576, 2097152, 4194304,
    8388608, 16777216, 33554432, 67108864, 134217728, 268435456,
    536870912, 1073741824>>[n + 1]

\* 2^n modulo d, by repeated squaring (d < 2^15)
RECURSIVE Pow2Mod(_, _)
Pow2Mod(n, d) ==
  IF n = 0 THEN 1 % d
  ELSE LET r == Pow2Mod(n \div 2, d)
       IN  IF n % 2 = 0 THEN (r * r) % d ELSE (2 * r * r) % d

\* the exponent of h / w: the e with 2^e <= h / w < 2^(e+1)
ExpOf(h, w) ==
  IF h >= w THEN CHOOSE e \in 0..30 : w * Pow2(e) <= h /\ h < 2 * w * Pow2(e)
  ELSE 0 - (CHOOSE k \in 1..30 : h * Pow2(k) >= w /\ h * Pow2(k - 1) < w)

\* bit k of num / den (den <= num < 2 * den), bit 1 being the leading 1
QBit(num, den, k) ==
  IF k = 1 THEN 1
  ELSE LET s == ((num - den) * Pow2Mod(k - 2, den)) % den
       IN  IF 2 * s >= den THEN 1 ELSE 0

\* the integer made of bits[lo..hi], most significant first
RECURSIVE ValBits(_, _, _)
ValBits(bits, lo, hi) ==
  IF lo > hi THEN 0
  ELSE IF lo = hi THEN bits[lo]
  ELSE LET mid == (lo + hi) \div 2
       IN  ValBits(bits, lo, mid) * Pow2(hi - mid) + ValBits(bits, mid + 1, hi)

\* bits + 1: the lowest 0 becomes 1 and the 1s below it 0; all ones carry out
IncBits(bits) ==
  LET zeros == {k \in 1..Len(bits) : bits[k] = 0}
  IN  IF zeros = {}
      THEN [bits |-> [j \in 1..Len(bits) |-> IF j = 1 THEN 1 ELSE 0], carry |-> 1]
      ELSE LET z == CHOOSE k \in zeros : \A k2 \in zeros : k2 <= k
           IN  [bits |-> [j \in 1..Len(bits) |->
                            IF j < z THEN bits[j] ELSE IF j = z THEN 1 ELSE 0],
                carry |-> 0]

\* round a significand of more than MantBits bits to nearest, ties to even
RoundNearestEven(bits, sticky, e) ==
  LET m     == [j \in 1..MantBits |-> bits[j]]
      guard == bits[MantBits + 1]
      rest  == sticky \/ \E j \in (MantBits + 2)..Len(bits) : bits[j] = 1
      up    == guard = 1 /\ (rest \/ m[MantBits] = 1)
      inc   == IncBits(m)
  IN  IF up THEN [m |-> inc.bits, e |-> e + inc.carry] ELSE [m |-> m, e |-> e]

\* h / w of two positive integers
FDiv(h, w) ==
  LET e   == ExpOf(h, w)
      num == IF e < 0 THEN h * Pow2(0 - e) ELSE h
      den == IF e > 0 THEN w * Pow2(e) ELSE w
      q   == [k \in 1..(MantBits + 1) |-> QBit(num, den, k)]
      rem == ((num - den) * Pow2Mod(MantBits, den)) % den
  IN  RoundNearestEven(q, rem # 0, e)

\* the exact product of a significand and an integer c, 0 < c < 2^15,
\* computed on 16 bit limbs, as a bit sequence with leading 1
MulBits(m, c) ==
  LET limb(t) == ValBits(m, IF MantBits - 16 * t - 15 < 1 THEN 1
                            ELSE MantBits - 16 * t - 15, MantBits - 16 * t)
      q0 == limb(0) * c
      q1 == limb(1) * c + q0 \div Pow2(16)
      q2 == limb(2) * c + q1 \div Pow2(16)
      q3 == limb(3) * c + q2 \div Pow2(16)
      P  == <<q0 % Pow2(16), q1 % Pow2(16), q2 % Pow2(16), q3 % Pow2(16),
              q3 \div Pow2(16)>>
      bit(n) == (P[(n \div 16) + 1] \div Pow2(n % 16)) % 2
      top == CHOOSE n \in 0..79 : bit(n) = 1 /\ \A n2 \in (n + 1)..79 : bit(n2) = 0
  IN  [j \in 1..(top + 1) |-> bit(top + 1 - j)]

\* x * c for a double x and a positive integer c
FMul(x, c) ==
  LET p == MulBits(x.m, c)
      e == x.e + (Len(p) - MantBits)
  IN  IF Len(p) = MantBits THEN [m |-> p, e |-> e]
      ELSE RoundNearestEven(p, FALSE, e)

\* Math.floor of a positive double below 2^31
MathFloor(x) == IF x.e < 0 THEN 0 ELSE ValBits(x.m, 1, x.e + 1)

(***************************************************************************)
(* The clip and the host, fixed for one conversion.                        *)
(*   duration     video.duration: a number of milliseconds, NaN or Infinity*)
(*                (on the millisecond grid duration * fps is exact in      *)
(*                binary64, so the product is taken on integers)           *)
(*   videoWidth, videoHeight   intrinsic size of the clip                  *)
(*   fault        what the host refuses: "nolib" GIFEncoder is not a       *)
(*                function, "noctx" getContext returns null, "tainted"     *)
(*                getImageData throws a SecurityError, "none"              *)
(***************************************************************************)
VARIABLES duration, videoWidth, videoHeight, fault

(***************************************************************************)
(* The conversion.                                                         *)
(*   pc           where the async code stands: "idle" not called,          *)
(*                "loading" waiting for metadata, "yield" in the await of  *)
(*                line 78, "seekwait" in the await of line 84, "done"      *)
(*   promise      the promise returned to the caller: state and value      *)
(*   metaFired, errFired   the video element's events so far               *)
(*   height, totalFrames   the sample plan of lines 57-64                  *)
(*   i            the loop index                                           *)
(*   frames       the writeFrame calls received by the encoder             *)
(*   seekLog      the assignments to video.currentTime                     *)
(*   finishCalls  the number of gif.finish() calls                         *)
(*   blobMade     a Blob was constructed from gif.bytes()                  *)
(*   finalLog     the calls made after the loop, in order: "finish",       *)
(*                "bytes", "resolve"                                       *)
(*   yieldTimer, seekTimer   pending setTimeout callbacks                  *)
(*   seekListener a 'seeked' listener is registered                        *)
(*   timers       the frame indices whose 1000 ms timer is armed            *)
(*   listeners    the frame indices whose seekHandler is registered         *)
(*   seekInFlight the seek of the latest currentTime assignment has not    *)
(*                delivered its seeked event                               *)
(*   staleSeeked  a seeked event of an earlier seek is still queued        *)
(*   lastVia      how the latest seek wait ended                           *)
(*   waitsSeen    the ways in which seek waits have ended so far           *)
(***************************************************************************)
VARIABLES pc, promise, metaFired, errFired, height, totalFrames, i, frames,
          seekLog, finishCalls, blobMade, yieldTimer, seekTimer, seekListener,
          timers, listeners,
          seekInFlight, staleSeeked, lastVia, waitsSeen, finalLog

(***************************************************************************)
(* A second call of createGifFromVideo, running at the same time.          *)
(*   conv2        the record of its clip and of its state, with the fields *)
(*                named as the variables of the first call                 *)
(***************************************************************************)
VARIABLES conv2

clip == <<duration, videoWidth, videoHeight, fault>>
conv1 == <<duration, videoWidth, videoHeight, fault, pc, promise, metaFired,
           errFired, height, totalFrames, i, frames, seekLog, finishCalls,
           blobMade, yieldTimer, seekTimer, seekListener,
           timers, listeners, seekInFlight,
           staleSeeked, lastVia, waitsSeen, finalLog>>
\* what the first call of createGifFromVideo never touches
(***************************************************************************)
(* The application (App.tsx).  videoSrc and imageSrc hold 0 for null and   *)
(* the number of the run that produced them otherwise; runs holds one      *)
(* record per startProcess invocation, gifs one per handleDownloadGif      *)
(* invocation that reached createGifFromVideo.                             *)
(***************************************************************************)
VARIABLES state, videoSrc, imageSrc, statusMessage, showKeyDialog,
          isGifGenerating, runs, gifs, revokedVideoUrls

app == <<state, videoSrc, imageSrc, statusMessage, showKeyDialog,
         isGifGenerating, runs, gifs, revokedVideoUrls>>

(***************************************************************************)
(* pollForVideo (geminiService).  elapsed is Date.now() - startTime.       *)
(***************************************************************************)
VARIABLES op, elapsed, pollPc, polls, lastSleepAt, pollResult

poll == <<op, elapsed, pollPc, polls, lastSleepAt, pollResult>>

(***************************************************************************)
(* generateTextVideo (geminiService).  revealI is the loop variable i,     *)
(* revealLog what the call has done so far, one entry per request, poll    *)
(* outcome, fetch outcome and sleep.                                       *)
(***************************************************************************)
VARIABLES revealPc, revealI, revealLog, revealResult

reveal == <<revealPc, revealI, revealLog, revealResult>>

outside == <<conv2, app, poll, reveal>>
vars == <<conv1, outside>>

Num(ms) == [kind |-> "num", ms |-> ms]
NaN == [kind |-> "nan", ms |-> 0]
Infinity == [kind |-> "inf", ms |-> 0]
Durations == {Num(DurUnit * d) : d \in 0..MaxDur} \cup {NaN, Infinity}
Faults == {"none", "nolib", "noctx", "tainted"}

\* the falsy Numbers: 0 and NaN
Falsy(d) == d.kind = "nan" \/ (d.kind = "num" /\ d.ms = 0)

\* video.duration || 5
DurationOr5(d) == IF Falsy(d) THEN Num(DefaultDuration * 1000) ELSE d

\* Math.floor(duration * fps); Math.floor(Infinity) is Infinity
TotalFrames(d) ==
  IF d.kind = "inf" THEN [inf |-> TRUE, n |-> 0]
  ELSE [inf |-> FALSE, n |-> (d.ms * fps) \div 1000]

\* the height is not made even
HeightOf_NotEven(h, w) == MathFloor(FMul(FDiv(h, w), width))

\* Math.floor((videoHeight / videoWidth) * width), made even
HeightOf(h, w) ==
  LET f == MathFloor(FMul(FDiv(h, w), width))
  IN  IF f % 2 # 0 THEN f - 1 ELSE f

\* i <= totalFrames: one iteration too many
LoopCond_OffByOne(k, tf) == tf.inf \/ k <= tf.n

\* i < totalFrames
LoopCond(k, tf) == tf.inf \/ k < tf.n

\* the delay given in hundredths of a second (the unit the GIF format stores)
FrameDelay_Centiseconds == 100 \div fps

\* 1000 / fps
FrameDelay == 1000 \div fps

\* i / fps, in milliseconds
SeekTime(k) == (k * 1000) \div fps

\* the iterations of an endless loop beyond InfCap are folded onto InfCap
Folded == totalFrames.inf /\ i >= InfCap

\* line 85: setTimeout of the wait for frame k
SetTimeout(ts, k) == ts \cup {k}

\* line 85: a timer that has fired is armed no more
Fired(ts, k) == ts \ {k}

\* line 92: clearTimeout(timeout)
ClearTimeout(ts, k) == ts \ {k}

\* line 95: video.addEventListener('seeked', seekHandler)
AddEventListener(ls, k) == ls \cup {k}

\* lines 86 and 93: video.removeEventListener('seeked', seekHandler)
RemoveEventListener(ls, k) == ls \ {k}

\* settling a promise: only the first resolve or reject has an effect
Settle(p, outcome, value) ==
  IF p.state = "pending" THEN [state |-> outcome, value |-> value] ELSE p

Pending == [state |-> "pending", value |-> "none"]

InitConv ==
  /\ pc = "idle"
  /\ promise = Pending
  /\ metaFired = FALSE
  /\ errFired = FALSE
  /\ height = 0
  /\ totalFrames = [inf |-> FALSE, n |-> 0]
  /\ i = 0
  /\ frames = <<>>
  /\ seekLog = <<>>
  /\ finishCalls = 0
  /\ blobMade = FALSE
  /\ yieldTimer = FALSE
  /\ seekTimer = FALSE
  /\ seekListener = FALSE
  /\ timers = {}
  /\ listeners = {}
  /\ seekInFlight = FALSE
  /\ staleSeeked = FALSE
  /\ lastVia = "none"
  /\ waitsSeen = {}
  /\ finalLog = <<>>

\* a createGifFromVideo that has not been called
Idle(d, w, h, f) ==
  [duration |-> d, videoWidth |-> w, videoHeight |-> h, fault |-> f,
   pc |-> "idle", promise |-> Pending, metaFired |-> FALSE,
   errFired |-> FALSE, height |-> 0, totalFrames |-> [inf |-> FALSE, n |-> 0],
   i |-> 0, frames |-> <<>>, seekLog |-> <<>>, finishCalls |-> 0,
   blobMade |-> FALSE, yieldTimer |-> FALSE, seekTimer |-> FALSE,
   seekListener |-> FALSE, timers |-> {}, listeners |-> {}, seekInFlight |-> FALSE, staleSeeked |-> FALSE,
   lastVia |-> "none", waitsSeen |-> {}, finalLog |-> <<>>]

\* nothing but the first call of createGifFromVideo ever runs
\* a message is the set of the phrases it contains; the empty string
\* contains none
NoText == {}
Text(phrase) == {phrase}
Includes(msg, phrase) == phrase \in msg

\* App.tsx lines 161-173
InitApp ==
  /\ state = "IDLE"
  /\ videoSrc = 0
  /\ imageSrc = 0
  /\ statusMessage = NoText
  /\ showKeyDialog = FALSE
  /\ isGifGenerating = FALSE
  /\ runs = <<>>
  /\ gifs = <<>>
  /\ revokedVideoUrls = {}

\* before pollForVideo is called
InitPollIdle ==
  /\ elapsed = 0
  /\ pollPc = "idle"
  /\ polls = 0
  /\ lastSleepAt = 0
  /\ pollResult = "none"

\* what a call of generateTextVideo has come to: nothing yet, the object
\* URL it returned, or the error it threw
NoResult == [outcome |-> "none", url |-> 0, message |-> ""]
Returned(u) == [outcome |-> "returned", url |-> u, message |-> ""]
Thrown(msg) == [outcome |-> "thrown", url |-> 0, message |-> msg]

\* before generateTextVideo is called
InitRevealIdle ==
  /\ revealPc = "idle"
  /\ revealI = 0
  /\ revealLog = <<>>
  /\ revealResult = NoResult

InitOutside ==
  /\ conv2 = Idle(Num(0), 1, 1, "none")
  /\ InitApp
  /\ op = [done |-> FALSE]
  /\ InitPollIdle
  /\ InitRevealIdle

Sizes == ((1..MaxW) \X (1..MaxH)) \cup {<<320, 180>>}

Init ==
  /\ duration \in Durations
  /\ \E sz \in Sizes : videoWidth = sz[1] /\ videoHeight = sz[2]
  /\ fault \in Faults
  /\ InitConv
  /\ InitOutside

\* lines 43-54 and 119-120: the call up to the return of the promise
CreateGifFromVideo ==
  /\ pc = "idle"
  /\ IF fault = "nolib"
     THEN /\ promise' = Settle(promise, "rejected", "GifLibraryError")
          /\ pc' = "done"
     ELSE /\ promise' = promise
          /\ pc' = "loading"
  /\ UNCHANGED <<clip, metaFired, errFired, height, totalFrames, i, frames,
                 seekLog, finishCalls, blobMade, finalLog, yieldTimer, seekTimer,
                 seekListener,
                 timers, listeners, seekInFlight, staleSeeked, lastVia, waitsSeen>>
  /\ UNCHANGED outside

\* gif.bytes() is read before gif.finish() has written the trailer
LoopOrFinish_BytesBeforeFinish(k, tf, p) ==
  IF LoopCond(k, tf)
  THEN /\ yieldTimer' = TRUE
       /\ pc' = "yield"
       /\ promise' = p
       /\ UNCHANGED <<finishCalls, blobMade, finalLog>>
  ELSE /\ yieldTimer' = FALSE
       /\ pc' = "done"
       /\ finishCalls' = finishCalls + 1
       /\ blobMade' = TRUE
       /\ finalLog' = finalLog \o <<"bytes", "finish", "resolve">>
       /\ promise' = Settle(p, "resolved", "blob")

\* lines 76-78 and 110-112: the loop test, then either the yield of the next
\* iteration or finish(), bytes() and resolve(new Blob(..))
LoopOrFinish(k, tf, p) ==
  IF LoopCond(k, tf)
  THEN /\ yieldTimer' = TRUE
       /\ pc' = "yield"
       /\ promise' = p
       /\ UNCHANGED <<finishCalls, blobMade, finalLog>>
  ELSE /\ yieldTimer' = FALSE
       /\ pc' = "done"
       /\ finishCalls' = finishCalls + 1
       /\ blobMade' = TRUE
       /\ finalLog' = finalLog \o <<"finish", "bytes", "resolve">>
       /\ promise' = Settle(p, "resolved", "blob")

\* the first iteration asks for its seek in the metadata task, without a
\* yield before it
OnLoadedMetadata_NoFirstYield ==
  /\ pc = "loading"
  /\ ~metaFired
  /\ ~errFired
  /\ metaFired' = TRUE
  /\ height' = HeightOf(videoHeight, videoWidth)
  /\ totalFrames' = TotalFrames(DurationOr5(duration))
  /\ IF fault = "noctx"
     THEN /\ promise' = Settle(promise, "rejected", "NoCanvasContext")
          /\ pc' = "done"
          /\ UNCHANGED <<yieldTimer, finishCalls, blobMade, finalLog, seekLog,
                         seekTimer, seekListener,
                         timers, listeners, seekInFlight>>
     ELSE IF LoopCond(0, totalFrames')
          THEN /\ seekLog' = <<[index |-> 0, timeMs |-> SeekTime(0)]>>
               /\ seekInFlight' = TRUE
               /\ seekTimer' = TRUE
               /\ seekListener' = TRUE
               /\ timers' = SetTimeout(timers, 0)
               /\ listeners' = AddEventListener(listeners, 0)
               /\ pc' = "seekwait"
               /\ UNCHANGED <<yieldTimer, promise, finishCalls, blobMade,
                              finalLog>>
          ELSE /\ LoopOrFinish(0, totalFrames', promise)
               /\ UNCHANGED <<seekLog, seekTimer, seekListener,
                              timers, listeners, seekInFlight>>
  /\ UNCHANGED <<clip, errFired, i, frames, staleSeeked, lastVia, waitsSeen>>
  /\ UNCHANGED outside

\* lines 55-78: the loadedmetadata handler up to its first await.  The event
\* fires once per load, and not at all once the load has failed.
OnLoadedMetadata ==
  /\ pc = "loading"
  /\ ~metaFired
  /\ ~errFired
  /\ metaFired' = TRUE
  /\ height' = HeightOf(videoHeight, videoWidth)
  /\ totalFrames' = TotalFrames(DurationOr5(duration))
  /\ IF fault = "noctx"
     THEN /\ promise' = Settle(promise, "rejected", "NoCanvasContext")
          /\ pc' = "done"
          /\ UNCHANGED <<yieldTimer, finishCalls, blobMade, finalLog>>
     ELSE LoopOrFinish(0, totalFrames', promise)
  /\ UNCHANGED <<clip, errFired, i, frames, seekLog, seekTimer, seekListener,
                 timers, listeners,
                 seekInFlight, staleSeeked, lastVia, waitsSeen>>
  /\ UNCHANGED outside

\* the seek of the next frame is asked for together with this one
YieldFire_SeekAhead ==
  /\ yieldTimer
  /\ yieldTimer' = FALSE
  /\ seekLog' = IF Folded THEN seekLog
                ELSE seekLog \o <<[index |-> i, timeMs |-> SeekTime(i)],
                                  [index |-> i + 1, timeMs |-> SeekTime(i + 1)]>>
  /\ seekInFlight' = TRUE
  /\ staleSeeked' \in {staleSeeked} \cup (IF seekInFlight THEN {TRUE} ELSE {})
  /\ seekTimer' = TRUE
  /\ seekListener' = TRUE
  /\ timers' = SetTimeout(timers, i)
  /\ listeners' = AddEventListener(listeners, i)
  /\ pc' = "seekwait"
  /\ UNCHANGED <<clip, promise, metaFired, errFired, height, totalFrames, i,
                 frames, finishCalls, blobMade, finalLog, lastVia, waitsSeen>>
  /\ UNCHANGED outside

\* lines 78-96: the yield timer fires; the loop assigns currentTime, arms
\* the 1000 ms timer and registers the seeked listener.  A seek that is
\* still running is aborted by the new one, unless its seeked event has
\* already been queued.
YieldFire ==
  /\ yieldTimer
  /\ yieldTimer' = FALSE
  /\ seekLog' = IF Folded THEN seekLog
                ELSE Append(seekLog, [index |-> i, timeMs |-> SeekTime(i)])
  /\ seekInFlight' = TRUE
  /\ staleSeeked' \in {staleSeeked} \cup (IF seekInFlight THEN {TRUE} ELSE {})
  /\ seekTimer' = TRUE
  /\ seekListener' = TRUE
  /\ timers' = SetTimeout(timers, i)
  /\ listeners' = AddEventListener(listeners, i)
  /\ pc' = "seekwait"
  /\ UNCHANGED <<clip, promise, metaFired, errFired, height, totalFrames, i,
                 frames, finishCalls, blobMade, finalLog, lastVia, waitsSeen>>
  /\ UNCHANGED outside

\* getImageData throws: a SecurityError on a tainted canvas, an
\* IndexSizeError on an empty rectangle
PixelError ==
  IF fault = "tainted" THEN "SecurityError"
  ELSE IF height = 0 THEN "IndexSizeError"
  ELSE "none"

\* line 100: the pixel buffer read from the canvas in iteration k
GetImageData(k) == [readIn |-> k]

\* line 104: quantize(data, 256), a function of its arguments
Quantize(data, maxColors) == [quantized |-> data, maxColors |-> maxColors]

\* line 105: applyPalette(data, palette), a function of its arguments
ApplyPalette(data, palette) == [applied |-> palette, to |-> data]

\* the palette of the first frame is used for every frame
PaletteOf_FirstFrame(k) == Quantize(GetImageData(0), MaxColors)

\* lines 100-104: the palette of iteration k
PaletteOf(k) == Quantize(GetImageData(k), MaxColors)

WriteFrame_VideoSize(k) ==
  [index |-> k, timeMs |-> SeekTime(k), width |-> videoWidth,
   height |-> videoHeight, delay |-> FrameDelay, maxColors |-> MaxColors,
   palette |-> PaletteOf(k),
   bitmap |-> ApplyPalette(GetImageData(k), PaletteOf(k))]

\* line 107: gif.writeFrame(index, width, height, {palette, delay})
WriteFrame(k) ==
  [index |-> k, timeMs |-> SeekTime(k), width |-> width, height |-> height,
   delay |-> FrameDelay, maxColors |-> MaxColors,
   palette |-> PaletteOf(k),
   bitmap |-> ApplyPalette(GetImageData(k), PaletteOf(k))]

\* a timed-out seek is retried: the frame is written but the index stays
AfterWait_RetryOnTimeout(via) ==
  /\ lastVia' = via
  /\ waitsSeen' = waitsSeen \cup {via}
  /\ IF PixelError # "none"
     THEN /\ promise' = Settle(promise, "rejected", PixelError)
          /\ pc' = "done"
          /\ UNCHANGED <<i, frames, yieldTimer, finishCalls, blobMade, finalLog>>
     ELSE /\ frames' = IF Folded THEN frames ELSE Append(frames, WriteFrame(i))
          /\ i' = IF Folded \/ via = "timeout" THEN i ELSE i + 1
          /\ LoopOrFinish(i', totalFrames, promise)

\* lines 99-116: the rest of the iteration once the seek wait has ended
AfterWait(via) ==
  /\ lastVia' = via
  /\ waitsSeen' = waitsSeen \cup {via}
  /\ IF PixelError # "none"
     THEN /\ promise' = Settle(promise, "rejected", PixelError)
          /\ pc' = "done"
          /\ UNCHANGED <<i, frames, yieldTimer, finishCalls, blobMade, finalLog>>
     ELSE /\ frames' = IF Folded THEN frames ELSE Append(frames, WriteFrame(i))
          /\ i' = IF Folded THEN i ELSE i + 1
          /\ LoopOrFinish(i + 1, totalFrames, promise)

\* the 1000 ms timer rejects the wait instead of resolving it
SeekTimeout_Rejects ==
  /\ seekTimer
  /\ seekTimer' = FALSE
  /\ seekListener' = FALSE
  /\ timers' = Fired(timers, i)
  /\ listeners' = RemoveEventListener(listeners, i)
  /\ lastVia' = "timeout"
  /\ waitsSeen' = waitsSeen \cup {"timeout"}
  /\ promise' = Settle(promise, "rejected", "SeekTimeout")
  /\ pc' = "done"
  /\ UNCHANGED <<clip, metaFired, errFired, height, totalFrames, seekLog,
                 seekInFlight, staleSeeked, i, frames, yieldTimer,
                 finishCalls, blobMade, finalLog>>
  /\ UNCHANGED outside

\* lines 85-89: the 1000 ms timer fires first
SeekTimeout ==
  /\ seekTimer
  /\ seekTimer' = FALSE
  /\ seekListener' = FALSE
  /\ timers' = Fired(timers, i)
  /\ listeners' = RemoveEventListener(listeners, i)
  /\ AfterWait("timeout")
  /\ UNCHANGED <<clip, metaFired, errFired, height, totalFrames, seekLog,
                 seekInFlight, staleSeeked>>
  /\ UNCHANGED outside

\* the wait ends but the frame is drawn and written in a later task
Seeked_DrawLater ==
  /\ \E src \in {"current", "stale"} :
       /\ IF src = "current" THEN seekInFlight ELSE staleSeeked
       /\ seekInFlight' = IF src = "current" THEN FALSE ELSE seekInFlight
       /\ staleSeeked' = IF src = "stale" THEN FALSE ELSE staleSeeked
  /\ IF seekListener
     THEN /\ seekTimer' = FALSE
          /\ seekListener' = FALSE
          /\ timers' = ClearTimeout(timers, i)
          /\ listeners' = RemoveEventListener(listeners, i)
          /\ pc' = "drawing"
          /\ UNCHANGED <<lastVia, waitsSeen, promise, i, frames, yieldTimer,
                         finishCalls, blobMade, finalLog>>
     ELSE UNCHANGED <<seekTimer, seekListener,
                      timers, listeners, lastVia, waitsSeen, promise,
                      pc, i, frames, yieldTimer, finishCalls, blobMade, finalLog>>
  /\ UNCHANGED <<clip, metaFired, errFired, height, totalFrames, seekLog>>
  /\ UNCHANGED outside

\* lines 91-95: the video element dispatches a seeked event, of the current
\* seek or of an earlier one; without a listener it has no effect
Seeked ==
  /\ \E src \in {"current", "stale"} :
       /\ IF src = "current" THEN seekInFlight ELSE staleSeeked
       /\ seekInFlight' = IF src = "current" THEN FALSE ELSE seekInFlight
       /\ staleSeeked' = IF src = "stale" THEN FALSE ELSE staleSeeked
  /\ IF seekListener
     THEN /\ seekTimer' = FALSE
          /\ seekListener' = FALSE
          /\ timers' = ClearTimeout(timers, i)
          /\ listeners' = RemoveEventListener(listeners, i)
          /\ AfterWait("seeked")
     ELSE UNCHANGED <<seekTimer, seekListener,
                      timers, listeners, lastVia, waitsSeen, promise,
                      pc, i, frames, yieldTimer, finishCalls, blobMade, finalLog>>
  /\ UNCHANGED <<clip, metaFired, errFired, height, totalFrames, seekLog>>
  /\ UNCHANGED outside

\* the error handler does not reject
OnError_NoReject ==
  /\ pc # "idle"
  /\ fault # "nolib"
  /\ ~errFired
  /\ errFired' = TRUE
  /\ UNCHANGED <<clip, pc, promise, metaFired, height, totalFrames, i, frames,
                 seekLog, finishCalls, blobMade, finalLog, yieldTimer, seekTimer,
                 seekListener,
                 timers, listeners, seekInFlight, staleSeeked, lastVia, waitsSeen>>
  /\ UNCHANGED outside

\* line 119: the video element's error event, before or after the metadata
OnError ==
  /\ pc # "idle"
  /\ fault # "nolib"
  /\ ~errFired
  /\ errFired' = TRUE
  /\ promise' = Settle(promise, "rejected", "VideoLoadFailed")
  /\ UNCHANGED <<clip, pc, metaFired, height, totalFrames, i, frames, seekLog,
                 finishCalls, blobMade, finalLog, yieldTimer, seekTimer, seekListener,
                 timers, listeners,
                 seekInFlight, staleSeeked, lastVia, waitsSeen>>
  /\ UNCHANGED outside

(***************************************************************************)
(* The second call.  The same handlers, written as functions from the      *)
(* record of a call to the record after the task; a task with a choice     *)
(* gives the set of its outcomes.                                          *)
(***************************************************************************)
\* lines 43-54 and 119-120
CallRec(c) ==
  IF c.fault = "nolib"
  THEN [c EXCEPT !.promise = Settle(c.promise, "rejected", "GifLibraryError"),
                 !.pc = "done"]
  ELSE [c EXCEPT !.pc = "loading"]

\* lines 76-78 and 110-112
LoopOrFinishRec(c, k) ==
  IF LoopCond(k, c.totalFrames)
  THEN [c EXCEPT !.yieldTimer = TRUE, !.pc = "yield"]
  ELSE [c EXCEPT !.yieldTimer = FALSE, !.pc = "done",
                 !.finishCalls = c.finishCalls + 1, !.blobMade = TRUE,
                 !.finalLog = c.finalLog \o <<"finish", "bytes", "resolve">>,
                 !.promise = Settle(c.promise, "resolved", "blob")]

\* lines 55-78
MetadataRec(c) ==
  LET planned == [c EXCEPT !.metaFired = TRUE,
                           !.height = HeightOf(c.videoHeight, c.videoWidth),
                           !.totalFrames = TotalFrames(DurationOr5(c.duration))]
  IN  IF c.fault = "noctx"
      THEN [planned EXCEPT
              !.promise = Settle(c.promise, "rejected", "NoCanvasContext"),
              !.pc = "done"]
      ELSE LoopOrFinishRec(planned, 0)

FoldedRec(c) == c.totalFrames.inf /\ c.i >= InfCap

\* lines 78-96
YieldRecs(c) ==
  {[c EXCEPT !.yieldTimer = FALSE,
             !.seekLog = IF FoldedRec(c) THEN c.seekLog
                         ELSE Append(c.seekLog, [index |-> c.i,
                                                 timeMs |-> SeekTime(c.i)]),
             !.seekInFlight = TRUE,
             !.staleSeeked = st,
             !.seekTimer = TRUE,
             !.seekListener = TRUE,
             !.timers = SetTimeout(c.timers, c.i),
             !.listeners = AddEventListener(c.listeners, c.i),
             !.pc = "seekwait"] :
     st \in {c.staleSeeked} \cup (IF c.seekInFlight THEN {TRUE} ELSE {})}

\* lines 99-100
PixelErrorRec(c) ==
  IF c.fault = "tainted" THEN "SecurityError"
  ELSE IF c.height = 0 THEN "IndexSizeError"
  ELSE "none"

\* line 107
WriteFrameRec(c) ==
  [index |-> c.i, timeMs |-> SeekTime(c.i), width |-> width,
   height |-> c.height, delay |-> FrameDelay, maxColors |-> MaxColors,
   palette |-> PaletteOf(c.i),
   bitmap |-> ApplyPalette(GetImageData(c.i), PaletteOf(c.i))]

AfterWaitRec_DropOnTimeout(c, via) ==
  LET woken == [c EXCEPT !.seekTimer = FALSE, !.seekListener = FALSE,
                         !.timers = IF via = "timeout"
                                    THEN Fired(c.timers, c.i)
                                    ELSE ClearTimeout(c.timers, c.i),
                         !.listeners = RemoveEventListener(c.listeners, c.i),
                         !.lastVia = via, !.waitsSeen = c.waitsSeen \cup {via}]
  IN  IF PixelErrorRec(c) # "none"
      THEN [woken EXCEPT
              !.promise = Settle(c.promise, "rejected", PixelErrorRec(c)),
              !.pc = "done"]
      ELSE LoopOrFinishRec(
             [woken EXCEPT
                !.frames = IF FoldedRec(c) \/ via = "timeout" THEN c.frames
                           ELSE Append(c.frames, WriteFrameRec(c)),
                !.i = IF FoldedRec(c) THEN c.i ELSE c.i + 1],
             c.i + 1)

\* lines 99-116, after the wait of record c has ended and its timer and
\* listener are gone
AfterWaitRec(c, via) ==
  LET woken == [c EXCEPT !.seekTimer = FALSE, !.seekListener = FALSE,
                         !.timers = IF via = "timeout"
                                    THEN Fired(c.timers, c.i)
                                    ELSE ClearTimeout(c.timers, c.i),
                         !.listeners = RemoveEventListener(c.listeners, c.i),
                         !.lastVia = via, !.waitsSeen = c.waitsSeen \cup {via}]
  IN  IF PixelErrorRec(c) # "none"
      THEN [woken EXCEPT
              !.promise = Settle(c.promise, "rejected", PixelErrorRec(c)),
              !.pc = "done"]
      ELSE LoopOrFinishRec(
             [woken EXCEPT
                !.frames = IF FoldedRec(c) THEN c.frames
                           ELSE Append(c.frames, WriteFrameRec(c)),
                !.i = IF FoldedRec(c) THEN c.i ELSE c.i + 1],
             c.i + 1)

\* lines 85-89
TimeoutRec(c) == AfterWaitRec(c, "timeout")

\* lines 91-95
SeekedRecs(c) ==
  {LET gone == [c EXCEPT
                  !.seekInFlight = IF src = "current" THEN FALSE ELSE c.seekInFlight,
                  !.staleSeeked = IF src = "stale" THEN FALSE ELSE c.staleSeeked]
   IN  IF c.seekListener THEN AfterWaitRec(gone, "seeked") ELSE gone :
     src \in {x \in {"current", "stale"} :
                IF x = "current" THEN c.seekInFlight ELSE c.staleSeeked}}

\* line 119
ErrorRec(c) ==
  [c EXCEPT !.errFired = TRUE,
            !.promise = Settle(c.promise, "rejected", "VideoLoadFailed")]

\* every call makes its own encoder (line 74: const gif = GIFEncoder()),
\* as it makes its own video element and canvas (lines 50, 66)
EncoderOf_Shared(call) == 1

EncoderOf(call) == call

\* the second call moves from conv2 to record c; the frames it has written
\* meanwhile went to its encoder
Second(c) ==
  IF EncoderOf(2) = 2
  THEN conv2' = c /\ UNCHANGED <<conv1, app, poll, reveal>>
  ELSE /\ conv2' = [c EXCEPT !.frames = conv2.frames]
       /\ UNCHANGED <<app, poll, reveal>>
       /\ frames' = frames \o SubSeq(c.frames, Len(conv2.frames) + 1, Len(c.frames))
       /\ UNCHANGED <<clip, pc, promise, metaFired, errFired, height,
                      totalFrames, i, seekLog, finishCalls, blobMade,
                      yieldTimer, seekTimer, seekListener,
                      timers, listeners, seekInFlight,
                      staleSeeked, lastVia, waitsSeen, finalLog>>

CreateGifFromVideo2 ==
  /\ conv2.pc = "idle"
  /\ Second(CallRec(conv2))

OnLoadedMetadata2 ==
  /\ conv2.pc = "loading"
  /\ ~conv2.metaFired
  /\ ~conv2.errFired
  /\ Second(MetadataRec(conv2))

YieldFire2 ==
  /\ conv2.yieldTimer
  /\ \E c \in YieldRecs(conv2) : Second(c)

SeekTimeout2 ==
  /\ conv2.seekTimer
  /\ Second(TimeoutRec(conv2))

Seeked2 == \E c \in SeekedRecs(conv2) : Second(c)

OnError2 ==
  /\ conv2.pc # "idle"
  /\ conv2.fault # "nolib"
  /\ ~conv2.errFired
  /\ Second(ErrorRec(conv2))

Next ==
  \/ CreateGifFromVideo
  \/ OnLoadedMetadata
  \/ YieldFire
  \/ SeekTimeout
  \/ Seeked
  \/ OnError

Spec == Init /\ [][Next]_vars

(***************************************************************************)
(* The sample plan over a wider range of intrinsic sizes: clips of         *)
(* positive finite duration on a host that refuses nothing or taints.      *)
(***************************************************************************)
PlanSizes == (1..PlanMaxW) \X (1..PlanMaxH)

InitPlan ==
  /\ duration \in {Num(DurUnit * d) : d \in 1..MaxDur}
  /\ \E sz \in PlanSizes : videoWidth = sz[1] /\ videoHeight = sz[2]
  /\ fault \in {"none", "tainted"}
  /\ InitConv
  /\ InitOutside

SpecPlan == InitPlan /\ [][Next]_vars

(***************************************************************************)
(* Liveness: the host runs every timer it has scheduled.  The events of    *)
(* the video element (loadedmetadata, error, seeked) are the environment's *)
(* and carry no fairness.                                                  *)
(***************************************************************************)
FairSpec == Spec /\ WF_vars(YieldFire) /\ WF_vars(SeekTimeout)

(***************************************************************************)
(* Two calls of createGifFromVideo whose tasks interleave, each on a clip  *)
(* of its own: DurUnit * 2 * d milliseconds, d in 1..MaxDurTwo, of size    *)
(* 1x1 or 320x180, readable or tainted.                                    *)
(***************************************************************************)
MaxDurTwo == 2
TwoDurations == {Num(DurUnit * 2 * d) : d \in 1..MaxDurTwo}
TwoSizes == {<<1, 1>>, <<320, 180>>}

InitTwo ==
  /\ InitApp
  /\ op = [done |-> FALSE]
  /\ InitPollIdle
  /\ InitRevealIdle
  /\ duration \in TwoDurations
  /\ \E sz \in TwoSizes : videoWidth = sz[1] /\ videoHeight = sz[2]
  /\ fault \in {"none", "tainted"}
  /\ InitConv
  /\ conv2 \in {Idle(d, sz[1], sz[2], f) :
                  d \in TwoDurations, sz \in TwoSizes, f \in {"none", "tainted"}}

NextTwo ==
  \/ CreateGifFromVideo
  \/ OnLoadedMetadata
  \/ YieldFire
  \/ SeekTimeout
  \/ Seeked
  \/ OnError
  \/ CreateGifFromVideo2
  \/ OnLoadedMetadata2
  \/ YieldFire2
  \/ SeekTimeout2
  \/ Seeked2
  \/ OnError2

SpecTwo == InitTwo /\ [][NextTwo]_vars

(***************************************************************************)
(* Properties.                                                             *)
(***************************************************************************)

\* C1 (as stated): when the promise is resolved the encoder has received
\* exactly floor(D * 10) frames, D being the duration the clip reported.
C1_FloorOfReportedDuration ==
  (promise.state = "resolved" /\ duration.kind = "num")
    => Len(frames) = (duration.ms * 10) \div 1000

\* C1 (amended): when the promise is resolved the encoder has received
\* exactly floor(D * 10) frames if the reported duration D is positive, and
\* exactly 50 frames (5 s) if the reported duration is 0 or NaN.
C1_FrameCount ==
  promise.state = "resolved" =>
    Len(frames) = IF duration.kind = "num" /\ duration.ms > 0
                  THEN (duration.ms * 10) \div 1000
                  ELSE 50

C1_Witness ==
  /\ promise.state = "resolved"
  /\ duration.kind = "num" /\ duration.ms > 0
  /\ Len(frames) = 3
  /\ waitsSeen = {"seeked", "timeout"}

\* C2: a step in which the 1000 ms timer ends the seek wait of index i, and
\* the pixels can be read, appends the frame of index i, moves the loop to
\* index i + 1 (its yield, or the finalisation after the last index) and
\* does not reject the promise.
C2_TimeoutStillAppends ==
  [][(seekTimer /\ ~seekTimer' /\ lastVia' = "timeout"
        /\ PixelError = "none" /\ ~Folded)
      => /\ Len(frames') = Len(frames) + 1
         /\ SubSeq(frames', 1, Len(frames)) = frames
         /\ frames'[Len(frames')].index = i
         /\ i' = i + 1
         /\ pc' \in {"yield", "done"}
         /\ pc' = "done" => blobMade'
         /\ promise'.state = "rejected" => promise' = promise]_vars

C2_Witness ==
  /\ waitsSeen = {"timeout"}
  /\ lastVia = "timeout"
  /\ Len(frames) = 3
  /\ promise.state = "resolved"

\* C3: once the error event has fired before loadedmetadata, the promise is
\* rejected with "Video load failed", nothing has been sought or appended
\* and no Blob exists.
C3_LoadErrorRejects ==
  (errFired /\ ~metaFired) =>
    /\ promise = [state |-> "rejected", value |-> "VideoLoadFailed"]
    /\ frames = <<>>
    /\ seekLog = <<>>
    /\ ~blobMade
    /\ finishCalls = 0

C3_Witness == errFired /\ ~metaFired /\ pc = "loading"

\* C4 (as stated): if neither loadedmetadata nor error ever fires, the
\* promise is eventually rejected.
C4_StalledLoadRejects ==
  <>[](pc = "loading" /\ ~metaFired /\ ~errFired)
    => <>(promise.state = "rejected")

\* C5: the k-th frame received by the encoder is the frame of index k - 1,
\* sought at (k - 1) / 10 s, and the k-th assignment to currentTime is the
\* one of index k - 1: no index is sought or appended twice, skipped or
\* taken out of order.
C5_InOrderOnce ==
  /\ \A k \in 1..Len(frames) :
       frames[k].index = k - 1 /\ frames[k].timeMs = 100 * (k - 1)
  /\ \A k \in 1..Len(seekLog) :
       seekLog[k].index = k - 1 /\ seekLog[k].timeMs = 100 * (k - 1)
  /\ Len(frames) <= Len(seekLog)
  /\ Len(seekLog) <= Len(frames) + 1

C5_Witness ==
  /\ Len(frames) = 3
  /\ Len(seekLog) = 3
  /\ "timeout" \in waitsSeen
  /\ promise.state = "resolved"

\* C6 (as stated): the promise settles at most once, and once it has been
\* rejected no further frame is sought or appended and no Blob is made.
C6_RejectionAborts ==
  [][/\ promise.state # "pending" => promise' = promise
     /\ promise.state = "rejected" =>
          /\ frames' = frames
          /\ seekLog' = seekLog
          /\ blobMade' = blobMade]_vars

\* C7 (as stated): once getImageData has been refused by the cross-origin
\* policy, the promise is rejected with the security error, which is not
\* the load failure; the loop has stopped at that frame and no container
\* was made.
C7_SecurityErrorSurfaces ==
  (fault = "tainted" /\ lastVia # "none") =>
    /\ promise = [state |-> "rejected", value |-> "SecurityError"]
    /\ promise.value # "VideoLoadFailed"
    /\ pc = "done"
    /\ frames = <<>>
    /\ ~blobMade

\* C8 (as stated): once the metadata has loaded, and the host runs every
\* scheduled timer, the promise is eventually resolved or rejected, for
\* every duration including 0, NaN and Infinity.
C8_AlwaysTerminates == metaFired ~> (promise.state # "pending")

\* C9 (as stated): the raster and every appended frame are 400 wide and
\* floor(h * 400 / w), rounded down to even, high.
C9_ExactEvenHeight ==
  metaFired =>
    LET f == (videoHeight * 400) \div videoWidth
        e == IF f % 2 # 0 THEN f - 1 ELSE f
    IN  /\ height = e
        /\ \A k \in 1..Len(frames) :
             frames[k].width = 400 /\ frames[k].height = e

\* C9 (amended): the raster and every appended frame are 400 wide and of
\* one even height, fixed when the metadata loads: floor(h * 400 / w)
\* rounded down to even, or 2 less than that when w divides h * 400 (the
\* binary64 product (h / w) * 400 can fall just below the exact integer).
C9_EvenHeight ==
  metaFired =>
    LET f == (videoHeight * 400) \div videoWidth
        e == IF f % 2 # 0 THEN f - 1 ELSE f
    IN  /\ height % 2 = 0
        /\ \/ height = e
           \/ height = e - 2 /\ (videoHeight * 400) % videoWidth = 0
        /\ \A k \in 1..Len(frames) :
             frames[k].width = 400 /\ frames[k].height = height

C9_Witness ==
  /\ videoWidth = 5 /\ videoHeight = 23
  /\ height = 1838
  /\ Len(frames) = 3
  /\ promise.state = "resolved"

\* C10: every frame received by the encoder carries the delay 100 ms, the
\* frames of timed-out seeks as well as those of signalled seeks.
C10_ConstantDelay == \A k \in 1..Len(frames) : frames[k].delay = 100

C10_Witness ==
  /\ Len(frames) = 3
  /\ waitsSeen = {"seeked", "timeout"}
  /\ lastVia = "timeout"

\* C11: the container is finalised once and only after the last frame:
\* finish() is called at most once, when all totalFrames frames have been
\* written; bytes() is read after finish(); the promise resolves after
\* both; and no frame is written once finish() has been called.
C11_FinalizedOnceAfterLastFrame ==
  /\ [](/\ finishCalls <= 1
        /\ finalLog \in {<<>>, <<"finish", "bytes", "resolve">>}
        /\ finishCalls = 1 <=> finalLog # <<>>
        /\ finalLog # <<>> =>
             /\ ~totalFrames.inf
             /\ Len(frames) = totalFrames.n
             /\ pc = "done"
        /\ blobMade => finalLog # <<>>
        /\ promise.state = "resolved" => finalLog # <<>>)
  /\ [][finalLog # <<>> => frames' = frames /\ finalLog' = finalLog]_vars

C11_Witness ==
  /\ finalLog = <<"finish", "bytes", "resolve">>
  /\ Len(frames) = 3
  /\ promise.state = "resolved"


(***************************************************************************)
(* Two calls side by side.                                                 *)
(***************************************************************************)
\* the first call as a record
First ==
  [duration |-> duration, videoWidth |-> videoWidth,
   videoHeight |-> videoHeight, fault |-> fault, pc |-> pc,
   promise |-> promise, metaFired |-> metaFired, errFired |-> errFired,
   height |-> height, totalFrames |-> totalFrames, i |-> i,
   frames |-> frames, seekLog |-> seekLog, finishCalls |-> finishCalls,
   blobMade |-> blobMade, yieldTimer |-> yieldTimer, seekTimer |-> seekTimer,
   seekListener |-> seekListener, timers |-> timers,
   listeners |-> listeners, seekInFlight |-> seekInFlight,
   staleSeeked |-> staleSeeked, lastVia |-> lastVia, waitsSeen |-> waitsSeen,
   finalLog |-> finalLog]

\* the tasks a call in state c can run when no other call exists
AloneSteps(c) ==
  (IF c.pc = "idle" THEN {CallRec(c)} ELSE {})
  \cup (IF c.pc = "loading" /\ ~c.metaFired /\ ~c.errFired
        THEN {MetadataRec(c)} ELSE {})
  \cup (IF c.yieldTimer THEN YieldRecs(c) ELSE {})
  \cup (IF c.seekTimer THEN {TimeoutRec(c)} ELSE {})
  \cup SeekedRecs(c)
  \cup (IF c.pc # "idle" /\ c.fault # "nolib" /\ ~c.errFired
        THEN {ErrorRec(c)} ELSE {})

\* lines 60-61 for the sizes of the two clips, computed once
TwoHeights == [sz \in TwoSizes |-> HeightOf(sz[2], sz[1])]

\* the frames a call on the clip of c appends when it runs to the end alone
AloneFrames(c) ==
  [k \in 1..TotalFrames(DurationOr5(c.duration)).n |->
     [index |-> k - 1, timeMs |-> SeekTime(k - 1), width |-> width,
      height |-> IF <<c.videoWidth, c.videoHeight>> \in TwoSizes
                 THEN TwoHeights[<<c.videoWidth, c.videoHeight>>]
                 ELSE HeightOf(c.videoHeight, c.videoWidth),
      delay |-> FrameDelay, maxColors |-> MaxColors,
      palette |-> Quantize(GetImageData(k - 1), MaxColors),
      bitmap |-> ApplyPalette(GetImageData(k - 1),
                              Quantize(GetImageData(k - 1), MaxColors))]]

AsAlone(c) ==
  /\ Len(c.frames) <= Len(AloneFrames(c))
  /\ c.frames = SubSeq(AloneFrames(c), 1, Len(c.frames))
  /\ c.promise.state = "resolved" => c.frames = AloneFrames(c)
  /\ c.promise.state = "rejected" =>
       c.promise.value \in {"VideoLoadFailed",
                             CASE c.fault = "nolib" -> "GifLibraryError"
                               [] c.fault = "noctx" -> "NoCanvasContext"
                               [] OTHER -> PixelErrorRec(c)}

\* C12: two calls whose tasks interleave share no state: a task changes the
\* state of one call only, and that change is one the call can make when it
\* runs alone; the frames each call has appended are at every moment the
\* first frames of its run alone, and all of them once it has resolved.
C12_IndependentPipelines ==
  /\ [][/\ conv1' # conv1 => conv2' = conv2 /\ First' \in AloneSteps(First)
        /\ conv2' # conv2 => conv1' = conv1 /\ conv2' \in AloneSteps(conv2)]_vars
  /\ [](AsAlone(First) /\ AsAlone(conv2))

\* both calls have resolved, on clips of different length and size
C12_Witness ==
  /\ promise.state = "resolved" /\ conv2.promise.state = "resolved"
  /\ Len(frames) = 2 /\ Len(conv2.frames) = 1
  /\ height = 400 /\ conv2.height = 224
  /\ "timeout" \in waitsSeen /\ "seeked" \in conv2.waitsSeen


\* what a finished container shows of its frames: how many, and the
\* dimensions and delay of each
Shape(fs) ==
  [k \in 1..Len(fs) |->
     [width |-> fs[k].width, height |-> fs[k].height, delay |-> fs[k].delay]]

SameClip ==
  /\ conv2.duration = duration
  /\ conv2.videoWidth = videoWidth
  /\ conv2.videoHeight = videoHeight
  /\ conv2.fault = fault

\* C15: two runs on the same clip that both resolve have written the same
\* number of frames, with the same dimensions and the same delay frame by
\* frame, whichever waits ended by the seeked signal and whichever by the
\* timeout in each run.
C15_SameClipSameShape ==
  (SameClip /\ promise.state = "resolved" /\ conv2.promise.state = "resolved")
    => Shape(frames) = Shape(conv2.frames)

\* both runs on the same two-frame clip resolved, one through timeouts only,
\* the other through seeked signals only
C15_Witness ==
  /\ SameClip
  /\ promise.state = "resolved" /\ conv2.promise.state = "resolved"
  /\ Len(frames) = 2 /\ Len(conv2.frames) = 2
  /\ waitsSeen = {"timeout"} /\ conv2.waitsSeen = {"seeked"}


(***************************************************************************)
(* The application: one action per handler task of App.tsx.  A handler     *)
(* sees the state of the render in which the user triggered it; the        *)
(* outcomes of the key check, of generateTextImage, of generateTextVideo   *)
(* and of createGifFromVideo are choices of the environment, and a request *)
(* that never settles is one whose action is never taken.                  *)
(***************************************************************************)
MaxSubmits == 2
MaxGifClicks == 2

\* part_001 lines 6-13
AppState ==
  {"IDLE", "CHECKING_KEY", "GENERATING_IMAGE", "GENERATING_VIDEO", "PLAYING",
   "ERROR"}

\* messages of the errors a generation request can fail with
ErrorMessages ==
  {NoText, Text("Requested entity was not found"), Text("404"),
   Text("Video generation timed out.")}

\* renderAppContent: the form is what is shown in the states that are
\* neither ERROR nor one of the three preview states
FormShown == state \notin {"ERROR", "GENERATING_IMAGE", "GENERATING_VIDEO", "PLAYING"}

\* the run or conversion number k moves to position p and notes what it did
Moved(seq, k, p, what) ==
  [seq EXCEPT ![k].pc = p, ![k].log = Append(seq[k].log, what)]

\* the text is not looked at
Submit_NoBlankCheck ==
  /\ FormShown
  /\ Len(runs) < MaxSubmits
  /\ \E blank \in BOOLEAN :
       runs' = Append(runs, [pc |-> "key",
                             blank |-> blank,
                             videoSrc |-> videoSrc,
                             log |-> <<>>])
  /\ UNCHANGED <<state, videoSrc, imageSrc, statusMessage, showKeyDialog,
                 isGifGenerating, gifs, revokedVideoUrls>>
  /\ UNCHANGED <<conv1, conv2, poll, reveal>>

\* startProcess up to its first await (lines 205-210)
Submit ==
  /\ FormShown
  /\ Len(runs) < MaxSubmits
  /\ \E blank \in BOOLEAN :
       runs' = Append(runs, [pc |-> IF blank THEN "ended" ELSE "key",
                             blank |-> blank,
                             videoSrc |-> videoSrc,
                             log |-> IF blank THEN <<"blank">> ELSE <<>>])
  /\ UNCHANGED <<state, videoSrc, imageSrc, statusMessage, showKeyDialog,
                 isGifGenerating, gifs, revokedVideoUrls>>
  /\ UNCHANGED <<conv1, conv2, poll, reveal>>

\* startProcess from the key check to the call of generateTextImage
\* (lines 210-226)
KeyChecked ==
  \E r \in 1..Len(runs) : \E keySelected \in {"yes", "no", "throws"} :
    /\ runs[r].pc = "key"
    /\ CASE keySelected = "throws" ->
              /\ runs' = Moved(runs, r, "ended", "keythrows")
              /\ UNCHANGED <<state, videoSrc, imageSrc, statusMessage,
                             showKeyDialog, isGifGenerating, revokedVideoUrls>>
         [] keySelected = "no" ->
              /\ showKeyDialog' = TRUE
              /\ runs' = Moved(runs, r, "ended", "nokey")
              /\ UNCHANGED <<state, videoSrc, imageSrc, statusMessage,
                             isGifGenerating, revokedVideoUrls>>
         [] keySelected = "yes" ->
              /\ state' = "GENERATING_IMAGE"
              /\ isGifGenerating' = FALSE
              /\ revokedVideoUrls' =
                   IF runs[r].videoSrc # 0
                   THEN revokedVideoUrls \cup {runs[r].videoSrc}
                   ELSE revokedVideoUrls
              /\ videoSrc' = 0
              /\ imageSrc' = 0
              /\ statusMessage' = Text("Designing")
              /\ runs' = Moved(Moved(runs, r, "image", "keySelected"),
                               r, "image", "generateTextImage")
              /\ UNCHANGED showKeyDialog
    /\ UNCHANGED gifs
    /\ UNCHANGED <<conv1, conv2, poll, reveal>>

\* every failure is shown as an error
Catch_NoClassification(r, msg) ==
  /\ statusMessage' = IF msg = NoText
                       THEN Text("Something went wrong creating your art.")
                       ELSE msg
  /\ state' = "ERROR"
  /\ runs' = Moved(runs, r, "ended", "ERROR")
  /\ UNCHANGED showKeyDialog

\* the catch block of startProcess (lines 242-252) in run r
Catch(r, msg) ==
  /\ IF Includes(msg, "Requested entity was not found") \/ Includes(msg, "404")
     THEN /\ showKeyDialog' = TRUE
          /\ state' = "IDLE"
          /\ runs' = Moved(runs, r, "ended", "IDLE")
          /\ UNCHANGED statusMessage
     ELSE /\ statusMessage' = IF msg = NoText
                              THEN Text("Something went wrong creating your art.")
                              ELSE msg
          /\ state' = "ERROR"
          /\ runs' = Moved(runs, r, "ended", "ERROR")
          /\ UNCHANGED showKeyDialog

\* the preview is shown as soon as the image is there
ImageDone_PlaysAtOnce ==
  \E r \in 1..Len(runs) :
    /\ runs[r].pc = "image"
    /\ \/ /\ imageSrc' = r
          /\ state' = "PLAYING"
          /\ statusMessage' = Text("Animating...")
          /\ runs' = Moved(runs, r, "video", "generateTextVideo")
          /\ UNCHANGED <<videoSrc, showKeyDialog>>
       \/ /\ \E msg \in ErrorMessages : Catch(r, msg)
          /\ UNCHANGED <<videoSrc, imageSrc>>
    /\ UNCHANGED <<isGifGenerating, gifs, revokedVideoUrls>>
    /\ UNCHANGED <<conv1, conv2, poll, reveal>>

\* startProcess from the return of generateTextImage to the call of
\* generateTextVideo (lines 226-237), or to the end of the catch block
ImageDone ==
  \E r \in 1..Len(runs) :
    /\ runs[r].pc = "image"
    /\ \/ /\ imageSrc' = r
          /\ state' = "GENERATING_VIDEO"
          /\ statusMessage' = Text("Animating...")
          /\ runs' = Moved(runs, r, "video", "generateTextVideo")
          /\ UNCHANGED <<videoSrc, showKeyDialog>>
       \/ /\ \E msg \in ErrorMessages : Catch(r, msg)
          /\ UNCHANGED <<videoSrc, imageSrc>>
    /\ UNCHANGED <<isGifGenerating, gifs, revokedVideoUrls>>
    /\ UNCHANGED <<conv1, conv2, poll, reveal>>

\* startProcess from the return of generateTextVideo to its end
\* (lines 237-240), or to the end of the catch block
VideoDone ==
  \E r \in 1..Len(runs) :
    /\ runs[r].pc = "video"
    /\ \/ /\ videoSrc' = r
          /\ state' = "PLAYING"
          /\ statusMessage' = Text("Done.")
          /\ runs' = Moved(runs, r, "ended", "PLAYING")
          /\ UNCHANGED <<imageSrc, showKeyDialog>>
       \/ /\ \E msg \in ErrorMessages : Catch(r, msg)
          /\ UNCHANGED <<videoSrc, imageSrc>>
    /\ UNCHANGED <<isGifGenerating, gifs, revokedVideoUrls>>
    /\ UNCHANGED <<conv1, conv2, poll, reveal>>

\* reset (lines 255-260), behind "Try Again" and "Create Another"
Reset ==
  /\ state \in {"ERROR", "PLAYING"}
  /\ state' = "IDLE"
  /\ videoSrc' = 0
  /\ imageSrc' = 0
  /\ isGifGenerating' = FALSE
  /\ UNCHANGED <<statusMessage, showKeyDialog, runs, gifs, revokedVideoUrls>>
  /\ UNCHANGED <<conv1, conv2, poll, reveal>>

\* handleDownloadGif from the click to its await (lines 273-277); the GIF
\* button is shown in state PLAYING and disabled by isGifGenerating (342).
\* Without the encoder library createGifFromVideo rejects at once and the
\* handler runs to its end in the same task.
HandleDownloadGif ==
  /\ state = "PLAYING"
  /\ ~isGifGenerating
  /\ Len(gifs) < MaxGifClicks
  /\ IF videoSrc = 0
     THEN UNCHANGED <<isGifGenerating, gifs>>
     ELSE \E library \in BOOLEAN :
            IF library
            THEN /\ isGifGenerating' = TRUE
                 /\ gifs' = Append(gifs, [pc |-> "converting",
                                          videoSrc |-> videoSrc,
                                          log |-> <<"createGifFromVideo">>])
            ELSE /\ isGifGenerating' = FALSE
                 /\ gifs' = Append(gifs, [pc |-> "ended",
                                          videoSrc |-> videoSrc,
                                          log |-> <<"createGifFromVideo",
                                                    "alert">>])
  /\ UNCHANGED <<state, videoSrc, imageSrc, statusMessage, showKeyDialog,
                 runs, revokedVideoUrls>>
  /\ UNCHANGED <<conv1, conv2, poll, reveal>>

Downloaded_NoRevoke == <<"createObjectURL", "click">>

\* lines 278-285
Downloaded == <<"createObjectURL", "click", "revokeObjectURL">>

\* handleDownloadGif after its await (lines 277-290)
GifSettles ==
  \E g \in 1..Len(gifs) : \E outcome \in {"resolved", "rejected"} :
    /\ gifs[g].pc = "converting"
    /\ gifs' = [gifs EXCEPT
                  ![g].pc = "ended",
                  ![g].log = gifs[g].log \o
                             (IF outcome = "resolved" THEN Downloaded
                              ELSE <<"alert">>)]
    /\ isGifGenerating' = FALSE
    /\ UNCHANGED <<state, videoSrc, imageSrc, statusMessage, showKeyDialog,
                   runs, revokedVideoUrls>>
    /\ UNCHANGED <<conv1, conv2, poll, reveal>>

\* onClose of the key dialog (line 469) and handleSelectKey (line 184)
CloseKeyDialog ==
  /\ showKeyDialog
  /\ showKeyDialog' = FALSE
  /\ UNCHANGED <<state, videoSrc, imageSrc, statusMessage, isGifGenerating,
                 runs, gifs, revokedVideoUrls>>
  /\ UNCHANGED <<conv1, conv2, poll, reveal>>

InitAppSpec ==
  /\ InitApp
  /\ duration = Num(0) /\ videoWidth = 1 /\ videoHeight = 1 /\ fault = "none"
  /\ InitConv
  /\ conv2 = Idle(Num(0), 1, 1, "none")
  /\ op = [done |-> FALSE]
  /\ InitPollIdle
  /\ InitRevealIdle

NextApp ==
  \/ Submit
  \/ KeyChecked
  \/ ImageDone
  \/ VideoDone
  \/ Reset
  \/ HandleDownloadGif
  \/ GifSettles
  \/ CloseKeyDialog

SpecApp == InitAppSpec /\ [][NextApp]_vars

\* the calls of createGifFromVideo whose promise has not settled
InFlight == {g \in 1..Len(gifs) : gifs[g].pc = "converting"}

\* C13: the application runs GIF conversions one at a time: at most one
\* createGifFromVideo call is in flight at any moment, and isGifGenerating
\* is true exactly while one is.
C13_OneConversionAtATime ==
  /\ Cardinality(InFlight) <= 1
  /\ isGifGenerating <=> InFlight # {}


\* how often a handler did something
Count(log, what) == Cardinality({k \in DOMAIN log : log[k] = what})

\* C17: the object URL that handleDownloadGif creates for a GIF blob is
\* revoked before the handler ends, after the download was triggered; a
\* handler whose conversion failed (it shows the alert) has created no
\* object URL and triggered no download, and none has while it still waits.
C17_GifUrlsReleased ==
  \A g \in 1..Len(gifs) :
    LET log == gifs[g].log
    IN  /\ Count(log, "createObjectURL") <= 1
        /\ gifs[g].pc = "ended" =>
             /\ Count(log, "revokeObjectURL") = Count(log, "createObjectURL")
             /\ \A k \in DOMAIN log :
                  log[k] = "createObjectURL" =>
                    \E m \in DOMAIN log : m > k /\ log[m] = "revokeObjectURL"
             /\ Count(log, "alert") + Count(log, "click") = 1
        /\ gifs[g].pc = "converting" \/ Count(log, "alert") > 0 =>
             /\ Count(log, "createObjectURL") = 0
             /\ Count(log, "click") = 0

\* one handler has downloaded its GIF and released the URL, another has
\* failed
C17_Witness ==
  /\ Len(gifs) = 2
  /\ gifs[1].pc = "ended" /\ Count(gifs[1].log, "revokeObjectURL") = 1
  /\ gifs[2].pc = "ended" /\ Count(gifs[2].log, "alert") = 1


(***************************************************************************)
(* pollForVideo.  The clock moves only while the function waits: a sleep   *)
(* of 5000 ms ends after 5000 ms or later (the timer task may run late),   *)
(* a status request returns after some latency.  Times are multiples of    *)
(* PollUnit milliseconds.                                                  *)
(***************************************************************************)
PollUnit == 2500
MaxLate == 1
MaxLatency == 2

\* part_000 line 116
MAX_WAIT_TIME == 180000
\* part_000 line 122
SleepMs == 5000

LoopHead_SleepFirst(o, e) ==
  /\ op' = o
  /\ elapsed' = e
  /\ IF o.done
     THEN /\ pollPc' = "returned"
          /\ pollResult' = "op"
          /\ UNCHANGED lastSleepAt
     ELSE /\ pollPc' = "sleeping"
          /\ lastSleepAt' = e
          /\ UNCHANGED pollResult

\* the head of the while loop (lines 118-122) with the operation o, at e
\* milliseconds after the start: return, throw or begin the next sleep
LoopHead(o, e) ==
  /\ op' = o
  /\ elapsed' = e
  /\ IF o.done
     THEN /\ pollPc' = "returned"
          /\ pollResult' = "op"
          /\ UNCHANGED lastSleepAt
     ELSE IF e > MAX_WAIT_TIME
          THEN /\ pollPc' = "thrown"
               /\ pollResult' = "Video generation timed out."
               /\ UNCHANGED lastSleepAt
          ELSE /\ pollPc' = "sleeping"
               /\ lastSleepAt' = e
               /\ UNCHANGED pollResult

\* lines 112-122: the call, up to the first sleep
PollForVideo ==
  /\ pollPc = "idle"
  /\ LoopHead(op, 0)
  /\ UNCHANGED polls
  /\ UNCHANGED <<conv1, conv2, app, reveal>>

\* lines 122-123: the sleep ends and the status request is sent
SleepEnds ==
  /\ pollPc = "sleeping"
  /\ \E late \in 0..MaxLate : elapsed' = elapsed + SleepMs + late * PollUnit
  /\ pollPc' = "requesting"
  /\ polls' = polls + 1
  /\ UNCHANGED <<op, lastSleepAt, pollResult>>
  /\ UNCHANGED <<conv1, conv2, app, reveal>>

\* lines 123 and 118-122: the status request returns an operation
RequestReturns ==
  /\ pollPc = "requesting"
  /\ \E latency \in 0..MaxLatency : \E done \in BOOLEAN :
       LoopHead([done |-> done], elapsed + latency * PollUnit)
  /\ UNCHANGED polls
  /\ UNCHANGED <<conv1, conv2, app, reveal>>

\* line 123: the status request rejects, and pollForVideo with it
RequestFails ==
  /\ pollPc = "requesting"
  /\ \E latency \in 0..MaxLatency : elapsed' = elapsed + latency * PollUnit
  /\ pollPc' = "thrown"
  /\ pollResult' = "request failed"
  /\ UNCHANGED <<op, polls, lastSleepAt>>
  /\ UNCHANGED <<conv1, conv2, app, reveal>>

InitPoll ==
  /\ op \in {[done |-> d] : d \in BOOLEAN}
  /\ InitPollIdle
  /\ InitRevealIdle
  /\ InitApp
  /\ duration = Num(0) /\ videoWidth = 1 /\ videoHeight = 1 /\ fault = "none"
  /\ InitConv
  /\ conv2 = Idle(Num(0), 1, 1, "none")

NextPoll ==
  \/ PollForVideo
  \/ SleepEnds
  \/ RequestReturns
  \/ RequestFails

SpecPoll == InitPoll /\ [][NextPoll]_vars

\* a timer that is due fires, and a request that returns does return
FairPoll == SpecPoll /\ WF_vars(SleepEnds) /\ WF_vars(RequestReturns)

\* the polls after which the ceiling is certainly passed
MaxPolls == MAX_WAIT_TIME \div SleepMs + 1

\* C14: pollForVideo returns only an operation that is done; it begins a
\* sleep only when at most 180000 ms have passed since its start; it has
\* sent at most 37 status requests, each after a sleep of at least 5000 ms;
\* and once it waits, if no request fails and the operation never becomes
\* done, it throws "Video generation timed out.".
C14_PollBounded ==
  /\ [](/\ pollPc = "returned" => op.done /\ pollResult = "op"
        /\ lastSleepAt <= MAX_WAIT_TIME
        /\ polls <= MaxPolls
        /\ polls * SleepMs <= elapsed
        /\ pollResult = "Video generation timed out." =>
             ~op.done /\ elapsed > MAX_WAIT_TIME)
  /\ [][pollPc' = "sleeping" /\ pollPc # "sleeping" =>
          elapsed' <= MAX_WAIT_TIME /\ lastSleepAt' = elapsed']_vars
  /\ (pollPc = "sleeping") ~>
       (op.done \/ pollResult \in {"request failed", "Video generation timed out."})

\* the timeout was thrown after the largest number of polls
C14_Witness ==
  /\ pollResult = "Video generation timed out."
  /\ polls = MaxPolls
  /\ lastSleepAt = MAX_WAIT_TIME


(***************************************************************************)
(* End to end: one readable clip of 2 s and 320x180.                       *)
(***************************************************************************)
InitE2E ==
  /\ duration = Num(2000)
  /\ videoWidth = 320
  /\ videoHeight = 180
  /\ fault = "none"
  /\ InitConv
  /\ InitOutside

SpecE2E == InitE2E /\ [][Next]_vars

\* C16: the conversion of a clip of 2 s and 320x180 that resolves has
\* written exactly 20 frames, in order, each 400 wide and 224 high (225
\* made even downwards), each with a delay of 100 ms and a palette asked
\* for with at most 256 colors.
C16_TwoSecondClip ==
  /\ metaFired => height = 224 /\ totalFrames = [inf |-> FALSE, n |-> 20]
  /\ Len(frames) <= 20
  /\ promise.state = "resolved" => Len(frames) = 20
  /\ \A k \in 1..Len(frames) :
       /\ frames[k].index = k - 1
       /\ frames[k].width = 400
       /\ frames[k].height = 224
       /\ frames[k].delay = 100
       /\ frames[k].maxColors <= 256

\* the 2 s clip was converted, with waits ended both ways
C16_Witness ==
  /\ duration = Num(2000) /\ videoWidth = 320 /\ videoHeight = 180
  /\ promise.state = "resolved"
  /\ Len(frames) = 20
  /\ waitsSeen = {"seeked", "timeout"}


\* C18: frames are handled one after another: a seek is requested only when
\* every frame sought before has been appended, it is the seek of the next
\* index, and at most one frame is sought and not yet appended.
C18_OneFrameAtATime ==
  /\ [](/\ Len(seekLog) - Len(frames) \in {0, 1}
        /\ \A k \in 1..Len(seekLog) : seekLog[k].index = k - 1
        /\ \A k \in 1..Len(frames) : frames[k].index = seekLog[k].index)
  /\ [][seekLog' # seekLog =>
          /\ Len(frames) = Len(seekLog)
          /\ seekLog' = Append(seekLog, [index |-> Len(frames),
                                         timeMs |-> SeekTime(Len(frames))])
          /\ frames' = frames]_vars

\* the third seek has been requested, after two frames were appended
C18_Witness == Len(seekLog) = 3 /\ Len(frames) = 2 /\ pc = "seekwait"

\* C19: every iteration begins with a zero-delay timer wait: a seek is
\* requested only by the task that this timer starts, the first seek
\* included, and no task writes more than one frame, so between two
\* writeFrame calls the pipeline has been suspended on the timer.
C19_YieldBeforeEachSeek ==
  /\ [](/\ yieldTimer <=> pc = "yield"
        /\ pc = "loading" => seekLog = <<>>)
  /\ [][/\ seekLog' # seekLog =>
             pc = "yield" /\ yieldTimer /\ ~yieldTimer' /\ pc' = "seekwait"
        /\ Len(frames') <= Len(frames) + 1
        /\ frames' # frames /\ pc' # "done" => pc' = "yield" /\ yieldTimer']_vars

\* the first seek has been requested, by the task of the first yield
C19_Witness ==
  /\ Len(seekLog) = 1 /\ frames = <<>>
  /\ pc = "seekwait" /\ ~yieldTimer /\ metaFired

\* C20: a conversion is suspended only while it waits for the metadata, for
\* the yield timer or for the end of a seek wait: the task that ends a seek
\* wait also appends the frame (or rejects on a pixel read that throws), and
\* the task that appends the last frame also finishes the container and
\* resolves; a task of another conversion changes none of this.
C20_OnlyThreeSuspensionPoints ==
  /\ [](/\ pc \in {"idle", "loading", "yield", "seekwait", "done"}
        /\ pc = "seekwait" <=> seekListener
        /\ seekListener <=> seekTimer)
  /\ [][/\ pc = "seekwait" /\ pc' # "seekwait" =>
             \/ frames' = Append(frames, WriteFrame(i)) /\ i' = i + 1
             \/ PixelError # "none" /\ pc' = "done"
                  /\ promise' = Settle(promise, "rejected", PixelError)
        /\ frames' # frames /\ Len(frames') = totalFrames.n =>
             /\ pc' = "done"
             /\ finalLog' = <<"finish", "bytes", "resolve">>
             /\ promise' = Settle(promise, "resolved", "blob")
        /\ conv2' # conv2 => conv1' = conv1]_vars

\* the first call is in a seek wait of its second frame while the second
\* call has already resolved
C20_Witness ==
  /\ pc = "seekwait" /\ Len(frames) = 1 /\ totalFrames.n = 2
  /\ conv2.promise.state = "resolved"


\* C21 (as stated): a seek wait ends once, by the seeked signal or by the
\* 1000 ms timer, and the task that ends it takes away the other: at every
\* moment at most one timer and one seeked listener of the conversion are
\* registered, both of the frame being waited for; none is registered
\* outside a seek wait, and none once the conversion has finished, that is
\* once its promise has settled; a frame is appended only by the task that
\* ends a wait.
C21_SeekWaitCleansUp ==
  /\ [](/\ Cardinality(timers) <= 1
        /\ Cardinality(listeners) <= 1
        /\ seekTimer <=> timers # {}
        /\ seekListener <=> listeners # {}
        /\ pc = "seekwait" => timers = {i} /\ listeners = {i}
        /\ pc # "seekwait" => timers = {} /\ listeners = {}
        /\ promise.state # "pending" => timers = {} /\ listeners = {})
  /\ [][/\ pc = "seekwait" /\ pc' # "seekwait" =>
             /\ timers' = {} /\ listeners' = {}
             /\ lastVia' \in {"seeked", "timeout"}
        /\ frames' # frames => pc = "seekwait" /\ timers = {i}]_vars


\* C22: every frame is quantized by itself: the palette written for frame k
\* is quantize of the pixel buffer read in iteration k with a limit of 256
\* colors, the bitmap written is applyPalette of that buffer and that
\* palette, and no buffer or palette of another iteration enters either.
C22_QuantizedPerFrame ==
  \A k \in 1..Len(frames) :
    /\ frames[k].palette.quantized = GetImageData(frames[k].index)
    /\ frames[k].palette.maxColors = 256
    /\ frames[k].bitmap.to = GetImageData(frames[k].index)
    /\ frames[k].bitmap.applied = frames[k].palette
    /\ \A m \in 1..Len(frames) :
         m # k => /\ frames[m].palette # frames[k].palette
                  /\ frames[k].palette.quantized # GetImageData(frames[m].index)

\* three frames were written, each with its own palette
C22_Witness ==
  /\ Len(frames) = 3
  /\ frames[3].palette = Quantize(GetImageData(2), MaxColors)
  /\ promise.state = "resolved"


(***************************************************************************)
(* The GIF button with the conversion behind it: the call made by the      *)
(* first handleDownloadGif is the first call of createGifFromVideo, and    *)
(* the handler goes on when that promise has settled.  The clip lasts      *)
(* 100 ms or reports an infinite duration, and is readable or tainted.     *)
(***************************************************************************)
InitGif ==
  /\ duration \in {Num(DurUnit * 2), Infinity}
  /\ videoWidth = 1 /\ videoHeight = 1
  /\ fault \in {"none", "tainted"}
  /\ InitConv
  /\ InitOutside

\* App.tsx line 273, for the first click
GifClick ==
  /\ gifs = <<>>
  /\ HandleDownloadGif

\* App.tsx line 277: createGifFromVideo(videoSrc)
GifCall ==
  /\ Len(gifs) = 1
  /\ gifs[1].pc = "converting"
  /\ CreateGifFromVideo

\* App.tsx lines 277-290: the await returns or throws as the promise settled
GifContinuation ==
  /\ promise.state # "pending"
  /\ GifSettles
  /\ Count(gifs'[1].log, "alert") = 1 <=> promise.state = "rejected"

NextGif ==
  \/ Submit
  \/ KeyChecked
  \/ ImageDone
  \/ VideoDone
  \/ Reset
  \/ CloseKeyDialog
  \/ GifClick
  \/ GifCall
  \/ OnLoadedMetadata
  \/ YieldFire
  \/ SeekTimeout
  \/ Seeked
  \/ OnError
  \/ GifContinuation

SpecGif == InitGif /\ [][NextGif]_vars

\* the host runs the synchronous call, every timer that is due and the
\* continuation of a settled promise; it owes no event of the video element
\* and no action of the user
FairGif ==
  /\ SpecGif
  /\ WF_vars(GifCall)
  /\ WF_vars(YieldFire)
  /\ WF_vars(SeekTimeout)
  /\ WF_vars(GifContinuation)

\* C23 (as stated): a handler whose conversion failed has shown the alert,
\* triggered no download and set isGifGenerating to false; and after every
\* click on the GIF button isGifGenerating is eventually false again.
C23_GifButtonRecovers ==
  /\ [][\A g \in 1..Len(gifs) :
          gifs[g].pc = "converting" /\ gifs'[g].pc = "ended"
            /\ Count(gifs'[g].log, "alert") = 1 =>
              /\ Count(gifs'[g].log, "click") = 0
              /\ ~isGifGenerating']_vars
  /\ isGifGenerating ~> ~isGifGenerating


\* what the user sees of the generation
Shown == <<state, imageSrc, videoSrc, statusMessage>>

\* C24: a run calls generateTextImage only when its text is not blank and
\* right after its own key check returned a selected key, and
\* generateTextVideo only after generateTextImage; a submission with blank
\* text changes nothing; a run whose key check finds no key opens the key
\* dialog and leaves state, imageSrc, videoSrc and statusMessage as they
\* were.
C24_NoRequestWithoutKeyAndText ==
  /\ [](\A r \in 1..Len(runs) :
          LET log == runs[r].log
          IN  /\ \A k \in DOMAIN log :
                   /\ log[k] = "generateTextImage" =>
                        ~runs[r].blank /\ k = 2 /\ log[1] = "keySelected"
                   /\ log[k] = "generateTextVideo" =>
                        k = 3 /\ log[2] = "generateTextImage"
              /\ runs[r].blank => log = <<"blank">> /\ runs[r].pc = "ended")
  /\ [][/\ Len(runs') > Len(runs) /\ runs'[Len(runs')].blank =>
             UNCHANGED <<Shown, showKeyDialog, isGifGenerating>>
        /\ \A r \in 1..Len(runs) :
             runs'[r].log = Append(runs[r].log, "nokey") =>
               showKeyDialog' /\ UNCHANGED Shown /\ runs'[r].pc = "ended"]_vars

\* one submission was blank, one run found no key, and the dialog is open
C24_Witness ==
  /\ Len(runs) = 2
  /\ runs[1].blank
  /\ runs[2].log = <<"nokey">>
  /\ showKeyDialog
  /\ state = "IDLE"


\* C25 (as stated): a seek wait that ends through the seeked signal ends
\* through the signal of the seek requested for that same frame, never
\* through the signal of an earlier seek.
C25_SignalIsOfOwnSeek ==
  [][seekListener /\ ~seekListener' /\ lastVia' = "seeked" /\ timers = {i} =>
       /\ seekInFlight /\ ~seekInFlight'
       /\ staleSeeked' = staleSeeked
       /\ seekLog[Len(seekLog)].index = i]_vars


\* the ways a run that passed its key check can have gone so far
RunLogs ==
  LET start == <<"keySelected", "generateTextImage">>
      ends == {<<"ERROR">>, <<"IDLE">>}
  IN  {start} \cup {start \o e : e \in ends}
      \cup {start \o <<"generateTextVideo">>}
      \cup {start \o <<"generateTextVideo">> \o e :
              e \in ends \cup {<<"PLAYING">>}}

\* C26: a generation run sets the state in the order GENERATING_IMAGE,
\* GENERATING_VIDEO, PLAYING: GENERATING_VIDEO is set by a run whose
\* generateTextImage returned an image, PLAYING by a run whose
\* generateTextVideo returned a URL; a run that has ended has set exactly one
\* of PLAYING, ERROR and IDLE, as its last step; CHECKING_KEY is never the
\* state.
C26_RunOrder ==
  /\ [](/\ state \in AppState \ {"CHECKING_KEY"}
        /\ \A r \in 1..Len(runs) :
             "keySelected" \in {runs[r].log[k] : k \in DOMAIN runs[r].log} =>
               /\ runs[r].log \in RunLogs
               /\ runs[r].pc = "ended" <=>
                    runs[r].log[Len(runs[r].log)] \in {"PLAYING", "ERROR", "IDLE"}
               /\ runs[r].pc = "image" <=> Len(runs[r].log) = 2
               /\ runs[r].pc = "video" <=>
                    runs[r].log[Len(runs[r].log)] = "generateTextVideo")
  /\ [][/\ state' = "GENERATING_IMAGE" /\ state # state' =>
             \E r \in 1..Len(runs) : runs[r].pc = "key" /\ runs'[r].pc = "image"
        /\ state' = "GENERATING_VIDEO" /\ state # state' =>
             \E r \in 1..Len(runs) :
               runs[r].pc = "image" /\ runs'[r].pc = "video" /\ imageSrc' = r
        /\ state' = "PLAYING" /\ state # state' =>
             \E r \in 1..Len(runs) :
               /\ runs[r].pc = "video" /\ runs'[r].pc = "ended"
               /\ videoSrc' = r
        /\ \A r \in 1..Len(runs) :
             runs[r].pc # runs'[r].pc /\ runs'[r].pc \in {"image", "video"} =>
               state' = IF runs'[r].pc = "image" THEN "GENERATING_IMAGE"
                        ELSE "GENERATING_VIDEO"]_vars

\* a run went through all three states and plays
C26_Witness ==
  /\ Len(runs) >= 1
  /\ runs[1].log = <<"keySelected", "generateTextImage", "generateTextVideo",
                     "PLAYING">>
  /\ state = "PLAYING"
  /\ videoSrc = 1


\* C27 (as stated): in every reachable state, PLAYING implies that videoSrc
\* is not null, and videoSrc is not null only in state PLAYING.
C27_VideoOnlyWhilePlaying ==
  /\ state = "PLAYING" => videoSrc # 0
  /\ videoSrc # 0 => state = "PLAYING"


Generating == {r \in 1..Len(runs) : runs[r].pc \in {"image", "video"}}

\* C29 (as stated): at most one generation run is in flight at any time, so
\* the completion of a run never changes state, imageSrc or videoSrc while a
\* run submitted after it has requests pending.
C29_OneRunInFlight ==
  /\ [](Cardinality(Generating) <= 1)
  /\ [][\A r \in Generating :
          runs'[r].pc # runs[r].pc =>
            \A newer \in Generating : newer <= r]_vars


(***************************************************************************)
(* generateTextVideo.  One action per task of the async function: the call *)
(* up to the first request, and the continuation of each await.  The poll  *)
(* is pollForVideo above, started by the continuation of generateVideos.   *)
(***************************************************************************)
MaxUris == 2

\* part_000 line 156
maxRevealRetries == 1
\* part_000 lines 189 and 196
RevealSleepMs == 3000

Uris == 1..MaxUris
OpErrors == {"quota exceeded", "prompt rejected"}

\* URL.createObjectURL of the blob fetched from uri u (lines 138, 146)
CreateObjectURL(u) == u

Last(log) == log[Len(log)]

\* lines 157-163: the loop condition with i = k, and the request of the
\* iteration; line 200 when the loop is over
Attempt(k, log) ==
  /\ revealI' = k
  /\ IF k <= maxRevealRetries
     THEN /\ revealPc' = "requesting"
          /\ revealLog' = Append(log, <<"generateVideos", k>>)
          /\ UNCHANGED revealResult
     ELSE /\ revealPc' = "thrown"
          /\ revealLog' = log
          /\ revealResult' = Thrown("Unable to generate video.")

Caught_NoSleep(msg, log) ==
  IF revealI = maxRevealRetries
  THEN /\ revealPc' = "thrown"
       /\ revealResult' = Thrown(msg)
       /\ revealLog' = log
       /\ UNCHANGED revealI
  ELSE Attempt(revealI + 1, log)

\* lines 194-197: the catch block, with the error msg
Caught(msg, log) ==
  IF revealI = maxRevealRetries
  THEN /\ revealPc' = "thrown"
       /\ revealResult' = Thrown(msg)
       /\ revealLog' = log
       /\ UNCHANGED revealI
  ELSE /\ revealPc' = "sleeping"
       /\ revealLog' = Append(log, <<"sleep", RevealSleepMs>>)
       /\ UNCHANGED <<revealI, revealResult>>

\* lines 150-163: the call, up to the first request
GenerateTextVideo ==
  /\ revealPc = "idle"
  /\ \E imageBase64 \in BOOLEAN :
       IF ~imageBase64
       THEN /\ revealPc' = "thrown"
            /\ revealResult' =
                 Thrown("Image generation failed, cannot generate video.")
            /\ UNCHANGED <<revealI, revealLog>>
       ELSE Attempt(0, revealLog)
  /\ UNCHANGED <<conv1, conv2, app, poll>>

\* lines 163-181: the request returns an operation, and pollForVideo runs
\* with it up to its first sleep
GenerateVideosReturns ==
  /\ revealPc = "requesting"
  /\ revealPc' = "polling"
  /\ \E done \in BOOLEAN : LoopHead([done |-> done], 0)
  /\ polls' = 0
  /\ UNCHANGED <<revealI, revealLog, revealResult>>
  /\ UNCHANGED <<conv1, conv2, app>>

\* lines 163 and 194-197: the request rejects
GenerateVideosThrows ==
  /\ revealPc = "requesting"
  /\ Caught("request failed", Append(revealLog, <<"threw", revealI>>))
  /\ UNCHANGED <<conv1, conv2, app, poll>>

\* lines 181-193: pollForVideo has returned the operation; what the
\* operation holds is the server's choice
PollReturns ==
  /\ revealPc = "polling"
  /\ pollPc = "returned"
  /\ \/ \E u \in Uris :
          \* lines 183-184
          /\ revealPc' = "fetching"
          /\ revealLog' = Append(revealLog, <<"op.uri", u>>)
          /\ UNCHANGED <<revealI, revealResult>>
     \/ \E msg \in OpErrors :
          \* lines 187-192
          LET log == Append(revealLog, <<"op.error", revealI>>)
          IN  IF revealI < maxRevealRetries
              THEN /\ revealPc' = "sleeping"
                   /\ revealLog' = Append(log, <<"sleep", RevealSleepMs>>)
                   /\ UNCHANGED <<revealI, revealResult>>
              ELSE Caught(msg, log)
     \/ \* neither an error nor a video: line 193 falls through to line 157
        Attempt(revealI + 1, Append(revealLog, <<"op.empty", revealI>>))
  /\ UNCHANGED <<conv1, conv2, app, poll>>

\* lines 181 and 194-197: pollForVideo has thrown
PollThrows ==
  /\ revealPc = "polling"
  /\ pollPc = "thrown"
  /\ Caught(pollResult, Append(revealLog, <<"pollThrew", revealI>>))
  /\ UNCHANGED <<conv1, conv2, app, poll>>

\* fetchVideoBlob lines 133-138: the first fetch delivers the content
FetchReturns ==
  /\ revealPc = "fetching"
  /\ revealPc' = "returned"
  /\ revealResult' = Returned(CreateObjectURL(Last(revealLog)[2]))
  /\ revealLog' = Append(revealLog, <<"fetched", Last(revealLog)[2]>>)
  /\ UNCHANGED revealI
  /\ UNCHANGED <<conv1, conv2, app, poll>>

\* fetchVideoBlob lines 133-141: the first fetch fails (not ok, or
\* rejected) and the fallback fetch is sent
FetchFails ==
  /\ revealPc = "fetching"
  /\ revealPc' = "fallback"
  /\ UNCHANGED <<revealI, revealLog, revealResult>>
  /\ UNCHANGED <<conv1, conv2, app, poll>>

\* fetchVideoBlob lines 141-146: the fallback fetch delivers the content
FallbackReturns ==
  /\ revealPc = "fallback"
  /\ revealPc' = "returned"
  /\ revealResult' = Returned(CreateObjectURL(Last(revealLog)[2]))
  /\ revealLog' = Append(revealLog, <<"fetched", Last(revealLog)[2]>>)
  /\ UNCHANGED revealI
  /\ UNCHANGED <<conv1, conv2, app, poll>>

\* fetchVideoBlob lines 141-144 and generateTextVideo lines 194-197: the
\* fallback fetch fails too
FallbackFails ==
  /\ revealPc = "fallback"
  /\ Caught("Failed to fetch video content",
            Append(revealLog, <<"fetchFailed", revealI>>))
  /\ UNCHANGED <<conv1, conv2, app, poll>>

\* lines 189-190 and 196: the sleep is over and the next iteration begins
RevealSleepEnds ==
  /\ revealPc = "sleeping"
  /\ Attempt(revealI + 1, revealLog)
  /\ UNCHANGED <<conv1, conv2, app, poll>>

InitReveal ==
  /\ InitRevealIdle
  /\ op = [done |-> FALSE]
  /\ InitPollIdle
  /\ InitApp
  /\ duration = Num(0) /\ videoWidth = 1 /\ videoHeight = 1 /\ fault = "none"
  /\ InitConv
  /\ conv2 = Idle(Num(0), 1, 1, "none")

NextReveal ==
  \/ GenerateTextVideo
  \/ GenerateVideosReturns
  \/ GenerateVideosThrows
  \/ SleepEnds
  \/ RequestReturns
  \/ RequestFails
  \/ PollReturns
  \/ PollThrows
  \/ FetchReturns
  \/ FetchFails
  \/ FallbackReturns
  \/ FallbackFails
  \/ RevealSleepEnds

SpecReveal == InitReveal /\ [][NextReveal]_vars

\* every request, poll step, fetch and sleep of the call terminates
FairReveal ==
  /\ SpecReveal
  /\ WF_vars(GenerateVideosReturns)
  /\ WF_vars(SleepEnds)
  /\ WF_vars(RequestReturns)
  /\ WF_vars(PollReturns)
  /\ WF_vars(PollThrows)
  /\ WF_vars(FetchReturns)
  /\ WF_vars(FallbackReturns)
  /\ WF_vars(RevealSleepEnds)


\* the generateVideos requests a call has issued
Requests(log) == {k \in DOMAIN log : log[k][1] = "generateVideos"}

\* the ways an attempt fails by a throw or by an operation error
Failures == {"threw", "pollThrew", "fetchFailed", "op.error"}

Ended == revealPc \in {"returned", "thrown"}

\* C30: generateTextVideo issues at most 2 generateVideos requests; a first
\* attempt that throws (the request, the poll or the video fetch) or whose
\* operation reports an error is followed by a sleep of 3000 ms and then by
\* the second request; the call returns a URL only as the last step of an
\* attempt whose operation finished with a video URI and no error and whose
\* content was fetched, and the URL is of that content; a call that ends
\* otherwise has thrown; and every call ends when its requests, polls,
\* fetches and sleeps do.
C30_RetriesAtMostOnce ==
  /\ [](Cardinality(Requests(revealLog)) <= 2)
  /\ [](\A k \in DOMAIN revealLog :
          revealLog[k][1] \in Failures /\ revealI = 0 =>
            /\ k < Len(revealLog)
            /\ revealLog[k + 1] = <<"sleep", 3000>>
            /\ revealPc = "sleeping")
  /\ [](\A k \in DOMAIN revealLog :
          revealLog[k] = <<"generateVideos", 1>> /\ k > 1
          /\ revealLog[k - 1][1] # "op.empty" =>
            /\ revealLog[k - 1] = <<"sleep", 3000>>
            /\ k > 2 /\ revealLog[k - 2][1] \in Failures)
  /\ [](Ended /\ (\E k \in DOMAIN revealLog :
                    revealLog[k][1] \in Failures /\ revealLog[k][2] = 0) =>
          Cardinality(Requests(revealLog)) = 2)
  /\ [](revealPc = "returned" =>
          LET n == Len(revealLog)
          IN  /\ n >= 3
              /\ revealLog[n][1] = "fetched"
              /\ revealLog[n - 1] = <<"op.uri", revealLog[n][2]>>
              /\ revealLog[n - 2][1] = "generateVideos"
              /\ op.done /\ pollPc = "returned"
              /\ revealResult = Returned(CreateObjectURL(revealLog[n][2])))
  /\ [](Ended /\ revealPc # "returned" =>
          /\ revealResult.outcome = "thrown"
          /\ \A k \in DOMAIN revealLog : revealLog[k][1] # "fetched")
  /\ (revealPc # "idle") ~> Ended

\* the first attempt timed out or failed otherwise, the call slept and the
\* second attempt returned the URL of its video
C30_Witness ==
  /\ revealPc = "returned"
  /\ Len(revealLog) = 6
  /\ revealLog[2][1] \in Failures
  /\ revealLog[3] = <<"sleep", RevealSleepMs>>
  /\ revealLog[4] = <<"generateVideos", 1>>
  /\ revealResult.url = revealLog[6][2]


(***************************************************************************)
(* Generations one after the other: the form is submitted only when no     *)
(* earlier startProcess invocation is still under way.                     *)
(***************************************************************************)
\* a submission (lines 205-210) when every earlier run has ended
SubmitAlone ==
  /\ \A r \in 1..Len(runs) : runs[r].pc = "ended"
  /\ Submit

NextOneByOne ==
  \/ SubmitAlone
  \/ KeyChecked
  \/ ImageDone
  \/ VideoDone
  \/ Reset
  \/ HandleDownloadGif
  \/ GifSettles
  \/ CloseKeyDialog

SpecOneByOne == InitAppSpec /\ [][NextOneByOne]_vars

\* the runs whose generateTextVideo returned an object URL (line 237);
\* the URL of run r is written r
VideoUrls == {r \in 1..Len(runs) : Count(runs[r].log, "PLAYING") = 1}

\* the runs that have passed the key check and sent generateTextImage
Started == {r \in 1..Len(runs) : Count(runs[r].log, "generateTextImage") = 1}

\* C31 (as stated): once a later generation run has started, the video
\* object URL of every earlier run has been passed to URL.revokeObjectURL.
C31_VideoUrlsRevoked ==
  \A q \in VideoUrls : \A r \in Started :
    q < r => q \in revokedVideoUrls

====
